---------------------------- MODULE Spec2Model ----------------------------
(***************************************************************************)
(* A model of AccentDetectionPipeline (src/app/pipeline.py) and of its two *)
(* collaborators download_video and extract_audio (src/app/utils.py).      *)
(*                                                                         *)
(* Specifications                                                          *)
(*   - Spec: process() calls, one after the other, on a constructed        *)
(*     pipeline, with every outcome of the collaborators and models;       *)
(*   - StubSpec: the same calls with the outcomes fixed for the run;       *)
(*   - LoaderSpec: __init__ and _load_accent_classifier, step by step,     *)
(*     and the first process() call the construction allows;               *)
(*   - ConcurrentSpec: two threads in process() on one pipeline object;    *)
(*   - AccentSpec: _detect_accent called on each case of its arguments.    *)
(*                                                                         *)
(* Conventions                                                             *)
(*   - a Python Optional is None (the empty tuple) or Some(x) = <<x>>;     *)
(*   - probabilities, confidences and scores are integers in thousandths   *)
(*     (0.1 is 100, 0.3 is 300, 0.5 is 500);                               *)
(*   - accent_confidence_percentage is an integer in tenths of a percent   *)
(*     (70.0 is 700);                                                      *)
(*   - accent codes and names are tuples of one-character strings, so that *)
(*     str.title() is computed character by character;                     *)
(*   - a formatted string is the tuple of its parts.                       *)
(***************************************************************************)
EXTENDS Integers, Sequences, FiniteSets, TLC

VARIABLES
    pc,           \* position of the process() call
    ncalls,       \* process() calls started so far
    video_url,    \* argument of the running process() call
    result,       \* the result dict of process()
    fs,           \* files: the TemporaryDirectory, video.mp4, audio.wav, ./temp_audio_whisper.wav
    detected,     \* None, or Some(return value of _detect_language_detailed)
    lang_log,     \* what the last _detect_language_detailed did
    accent_info,  \* None, or Some(return value of the last _detect_accent)
    accent_log,   \* one entry per _detect_accent invocation of this call
    trace,        \* the calls process() made, in order: [fn, ok, file]
    exc,          \* None, or Some(exception that left process())
    self,         \* the pipeline object: whisper_model, accent_classifier, accent_mapping
    model_dir,    \* what ./pretrained_models/accent_ecapa holds
    loader,       \* position and log of __init__ and _load_accent_classifier
    stub,         \* None, or Some(the fixed outcomes of the collaborators and models)
    observed,     \* with fixed outcomes: the results process() returned, in order
    flow,         \* concurrent process() calls: the position of each thread
    files,        \* concurrent process() calls: who wrote the file at each path
    fn_in,        \* arguments of a direct call of _detect_accent or _detect_language_detailed
    fn_out        \* None, or Some(what that call gave)

\* the state of one process() call after the other
pvars == <<pc, ncalls, video_url, result, fs, detected, lang_log, accent_info,
           accent_log, trace, exc>>

\* the state of the construction
lvars == <<self, model_dir, loader>>

\* the state of concurrent calls and of direct calls of _detect_accent
ovars == <<flow, files, fn_in, fn_out>>

vars == <<pvars, lvars, stub, observed, ovars>>

---------------------------------------------------------------------------
\* Bounds of the model.

\* process() calls made one after the other
MaxCalls == 2

\* the URLs a caller passes
Urls == {"http://a/ok.mp4", "http://b/clip.mp4"}

---------------------------------------------------------------------------
\* Optional values

None == <<>>

Some(x) == <<x>>

Get(o) == o[1]

---------------------------------------------------------------------------
\* Characters and str.title()

LowerCase ==
    <<"a","b","c","d","e","f","g","h","i","j","k","l","m",
      "n","o","p","q","r","s","t","u","v","w","x","y","z">>

UpperCase ==
    <<"A","B","C","D","E","F","G","H","I","J","K","L","M",
      "N","O","P","Q","R","S","T","U","V","W","X","Y","Z">>

IsLower(c) == \E i \in 1..Len(LowerCase) : LowerCase[i] = c

IsUpper(c) == \E i \in 1..Len(UpperCase) : UpperCase[i] = c

IsCased(c) == IsLower(c) \/ IsUpper(c)

ToUpper(c) ==
    IF IsLower(c) THEN UpperCase[CHOOSE i \in 1..Len(LowerCase) : LowerCase[i] = c] ELSE c

ToLower(c) ==
    IF IsUpper(c) THEN LowerCase[CHOOSE i \in 1..Len(UpperCase) : UpperCase[i] = c] ELSE c

\* str.title(): a cased character is upper-cased when the character before it
\* is not cased (or there is none), lower-cased otherwise
Title(s) ==
    [i \in 1..Len(s) |->
        IF i = 1 \/ ~IsCased(s[i-1]) THEN ToUpper(s[i]) ELSE ToLower(s[i])]

---------------------------------------------------------------------------
\* The label mapping built by __init__: a dict, as the tuple of its items

accent_mapping ==
    <<
      <<<<"u","s">>,
        <<"A","m","e","r","i","c","a","n">>>>,
      <<<<"e","n","g","l","a","n","d">>,
        <<"B","r","i","t","i","s","h">>>>,
      <<<<"a","u","s","t","r","a","l","i","a">>,
        <<"A","u","s","t","r","a","l","i","a","n">>>>,
      <<<<"i","n","d","i","a","n">>,
        <<"I","n","d","i","a","n">>>>,
      <<<<"c","a","n","a","d","a">>,
        <<"C","a","n","a","d","i","a","n">>>>,
      <<<<"b","e","r","m","u","d","a">>,
        <<"B","e","r","m","u","d","i","a","n">>>>,
      <<<<"s","c","o","t","l","a","n","d">>,
        <<"S","c","o","t","t","i","s","h">>>>,
      <<<<"a","f","r","i","c","a","n">>,
        <<"A","f","r","i","c","a","n">>>>,
      <<<<"i","r","e","l","a","n","d">>,
        <<"I","r","i","s","h">>>>,
      <<<<"n","e","w","z","e","a","l","a","n","d">>,
        <<"N","e","w"," ","Z","e","a","l","a","n","d">>>>,
      <<<<"w","a","l","e","s">>,
        <<"W","e","l","s","h">>>>,
      <<<<"m","a","l","a","y","s","i","a">>,
        <<"M","a","l","a","y","s","i","a","n">>>>,
      <<<<"p","h","i","l","i","p","p","i","n","e","s">>,
        <<"F","i","l","i","p","i","n","o">>>>,
      <<<<"s","i","n","g","a","p","o","r","e">>,
        <<"S","i","n","g","a","p","o","r","e","a","n">>>>,
      <<<<"h","o","n","g","k","o","n","g">>,
        <<"H","o","n","g"," ","K","o","n","g">>>>,
      <<<<"s","o","u","t","h","a","t","l","a","n","d","t","i","c">>,
        <<"S","o","u","t","h"," ","A","t","l","a","n","t","i","c">>>>
    >>

\* dict.get(key, default)
DictGet(d, key, default) ==
    IF \E i \in 1..Len(d) : d[i][1] = key
    THEN d[CHOOSE i \in 1..Len(d) : d[i][1] = key][2]
    ELSE default

\* "unknown", the code used when the classifier gives no label
UnknownCode == <<"u","n","k","n","o","w","n">>

\* "Unknown", the name of the fallback record
UnknownName == <<"U","n","k","n","o","w","n">>

---------------------------------------------------------------------------
\* _detect_accent (pipeline.py 345-387)

\* the exception classify_file raises at attempt 0, 1, 2
ClassifyErrors ==
    <<"RuntimeError: classify_file failed (path as given)",
      "RuntimeError: classify_file failed (absolute path)",
      "RuntimeError: classify_file failed (forward slashes)">>

\* the paths tried, in order (351-355)
PathsToTry == <<"audio_path", "abspath(audio_path)", "abspath(audio_path).replace">>


\* a variant of round_1: round(x), to a whole number
round_whole(n, d) ==
    LET q == n \div d
        r == n % d
    IN  10 * (IF 2 * r > d \/ (2 * r = d /\ q % 2 = 1) THEN q + 1 ELSE q)

\* round(x, 1) of the rational n/d, in tenths; a tie goes to the even digit
round_1(n, d) ==
    LET q == (n * 10) \div d
        r == (n * 10) % d
    IN  IF 2 * r > d \/ (2 * r = d /\ q % 2 = 1) THEN q + 1 ELSE q


\* a variant of AccentRecord: the code itself stands in for a missing name
AccentRecord_NoTitle(out) ==
    LET code      == IF out.labels # <<>> THEN out.labels[1] ELSE UnknownCode
        score_val == IF out.score # <<>> THEN out.score[1] ELSE 0
        name      == DictGet(accent_mapping, code, code)
    IN  [code |-> code, name |-> name, score |-> score_val,
         percent |-> round_1(score_val * 100, 1000)]

\* 364-375: the record built from what classify_file returned;
\* out = [labels |-> tuple of codes, score |-> tuple of scores in thousandths]
AccentRecord(out) ==
    LET code      == IF out.labels # <<>> THEN out.labels[1] ELSE UnknownCode
        score_val == IF out.score # <<>> THEN out.score[1] ELSE 0
        name      == DictGet(accent_mapping, code, Title(code))
    IN  [code |-> code, name |-> name, score |-> score_val,
         percent |-> round_1(score_val * 100, 1000)]


\* a variant of AccentExcept: the handler lets the exception go on to the caller
AccentExcept_Reraise(e, tried) ==
    [ret |-> None, raised |-> Some(e), error |-> Some(e), tried |-> tried]

\* 383-387: the outer handler swallows the exception and returns a fallback record
AccentExcept(e, tried) ==
    [ret    |-> Some([code |-> UnknownCode, name |-> UnknownName, score |-> 0, percent |-> 0]),
     raised |-> None,
     error  |-> Some(e),
     tried  |-> tried]

\* 351-381: the loop over the three paths, from attempt (0, 1, 2) on.
\* exists0: os.path.exists of the path as given; raises[k+1]: classify_file
\* raises at attempt k; out: what classify_file returns when it does not raise;
\* tried: the paths classify_file was called with so far
RECURSIVE AccentAttempts(_, _, _, _, _)
AccentAttempts(attempt, exists0, raises, out, tried) ==
    IF attempt > 2
    THEN [ret |-> None, raised |-> None, error |-> None, tried |-> tried]
    ELSE IF ~exists0 /\ attempt = 0
    THEN AccentAttempts(attempt + 1, exists0, raises, out, tried)
    ELSE LET called == Append(tried, PathsToTry[attempt + 1])
         IN  IF raises[attempt + 1]
             THEN IF attempt = 2
                  THEN AccentExcept(ClassifyErrors[attempt + 1], called)
                  ELSE AccentAttempts(attempt + 1, exists0, raises, out, called)
             ELSE [ret |-> Some(AccentRecord(out)), raised |-> None, error |-> None,
                   tried |-> called]

\* a variant of _detect_accent: the path as given is tried whether it exists or not
_detect_accent_NoSkip(exists0, raises, out) ==
    AccentAttempts(0, TRUE, raises, out, <<>>)

\* 345-387
_detect_accent(exists0, raises, out) ==
    AccentAttempts(0, exists0, raises, out, <<>>)

---------------------------------------------------------------------------
\* _detect_language_detailed (pipeline.py 251-338)

\* 338: the value returned when anything inside raised
Sentinel == <<"unknown", 0, <<>>>>

\* 311: one second of audio at 16 kHz
MinSamples == 16000

\* a variant of TooShort: one second itself is refused
TooShort_AtFloor(samples) == samples <= MinSamples

\* 311: len(audio) < 16000
TooShort(samples) == samples < MinSamples

\* 324: sorted(probs.items(), key=lambda x: x[1], reverse=True) is stable:
\* an item goes behind every item whose probability is at least its own
RECURSIVE InsertDesc(_, _)
InsertDesc(item, sorted) ==
    IF sorted = <<>> THEN <<item>>
    ELSE IF sorted[1][2] >= item[2]
         THEN <<sorted[1]>> \o InsertDesc(item, Tail(sorted))
         ELSE <<item>> \o sorted

RECURSIVE SortedDesc(_, _)
SortedDesc(items, acc) ==
    IF items = <<>> THEN acc
    ELSE SortedDesc(Tail(items), InsertDesc(items[1], acc))

\* a variant of MaxKey: the last of the keys with the greatest probability
MaxKey_LastTie(probs) ==
    LET i == CHOOSE i \in 1..Len(probs) :
                 /\ \A j \in 1..Len(probs) : probs[j][2] <= probs[i][2]
                 /\ \A j \in (i+1)..Len(probs) : probs[j][2] < probs[i][2]
    IN  probs[i][1]

\* 327: max(probs, key=probs.get) is the first key, in the dict's order, whose
\* probability no other key exceeds
MaxKey(probs) ==
    LET i == CHOOSE i \in 1..Len(probs) :
                 /\ \A j \in 1..Len(probs) : probs[j][2] <= probs[i][2]
                 /\ \A j \in 1..(i-1) : probs[j][2] < probs[i][2]
    IN  probs[i][1]

\* probs[lang]
ProbOf(probs, lang) ==
    probs[CHOOSE i \in 1..Len(probs) : probs[i][1] = lang][2]

\* 324-332: the return value computed from the model's distribution
LanguageResult(probs) ==
    LET sorted_probs == SortedDesc(probs, <<>>)
        lang         == MaxKey(probs)
        confidence   == ProbOf(probs, lang)
    IN  <<lang, confidence, sorted_probs>>

\* a variant of LoadAudio: an empty buffer from librosa is taken as loaded
LoadAudio_AcceptsEmpty(d, temp) ==
    IF d.librosa # None
    THEN [audio |-> d.librosa, tried |-> <<"librosa">>, temp |-> temp]
    ELSE IF ~d.copy_ok
    THEN [audio |-> d.abs_load, tried |-> <<"librosa", "copy", "abspath">>, temp |-> temp]
    ELSE IF d.copy_load = None
    THEN [audio |-> d.abs_load, tried |-> <<"librosa", "copy", "abspath">>, temp |-> TRUE]
    ELSE [audio |-> d.copy_load, tried |-> <<"librosa", "copy">>, temp |-> ~d.remove_ok]

\* a variant of LoadAudio: the copy of 284 raises when ./temp_audio_whisper.wav
\* is already there
LoadAudio_NoOverwrite(d, temp) ==
    IF d.librosa # None /\ Get(d.librosa) # 0
    THEN [audio |-> d.librosa, tried |-> <<"librosa">>, temp |-> temp]
    ELSE IF ~d.copy_ok \/ temp
    THEN [audio |-> d.abs_load, tried |-> <<"librosa", "copy", "abspath">>, temp |-> temp]
    ELSE IF d.copy_load = None
    THEN [audio |-> d.abs_load, tried |-> <<"librosa", "copy", "abspath">>, temp |-> TRUE]
    ELSE [audio |-> d.copy_load, tried |-> <<"librosa", "copy">>, temp |-> ~d.remove_ok]

\* 261-307: the three ways of loading the audio.
\* d: what each call does  (librosa, copy_load, abs_load: None when the call
\*    raises, else Some(number of samples); copy_ok, remove_ok: whether
\*    shutil.copy2 and os.remove succeed);
\* temp: whether ./temp_audio_whisper.wav exists before.
\* Gives the buffer (None when all three failed), the methods tried in order,
\* and whether ./temp_audio_whisper.wav exists afterwards.
LoadAudio(d, temp) ==
    IF d.librosa # None /\ Get(d.librosa) # 0
    THEN [audio |-> d.librosa, tried |-> <<"librosa">>, temp |-> temp]
    ELSE IF ~d.copy_ok
    THEN \* 284 raised: on to method 3
         [audio |-> d.abs_load, tried |-> <<"librosa", "copy", "abspath">>, temp |-> temp]
    ELSE IF d.copy_load = None
    THEN \* 287 raised after the copy was made: 291 is not reached
         [audio |-> d.abs_load, tried |-> <<"librosa", "copy", "abspath">>, temp |-> TRUE]
    ELSE \* 290-293: an os.remove that raises is ignored
         [audio |-> d.copy_load, tried |-> <<"librosa", "copy">>, temp |-> ~d.remove_ok]


\* a variant of LanguageExcept: the handler lets the exception go on to the caller
LanguageExcept_Reraise(e) == [ret |-> Sentinel, raised |-> Some(e), error |-> Some(e)]

\* 334-338: the handler of the function's try
LanguageExcept(e) == [ret |-> Sentinel, raised |-> None, error |-> Some(e)]

\* 253-332. d as for LoadAudio, and size_ok (259), features_ok (315-318),
\* probs (321: None when detect_language raises, else Some(distribution)).
\* Gives the outcome (ret, raised, error) and the trace of what ran.
_detect_language_detailed(d, temp) ==
    LET loaded == LoadAudio(d, temp)
        out ==
            IF ~d.size_ok
            THEN LanguageExcept("OSError: getsize(audio_path)")
            ELSE IF loaded.audio = None
            THEN LanguageExcept("All audio loading methods failed")
            ELSE IF TooShort(Get(loaded.audio))
            THEN LanguageExcept("Audio is too short for language detection")
            ELSE IF ~d.features_ok
            THEN LanguageExcept("RuntimeError: log_mel_spectrogram")
            ELSE IF d.probs = None
            THEN LanguageExcept("RuntimeError: detect_language")
            ELSE [ret |-> LanguageResult(Get(d.probs)), raised |-> None, error |-> None]
        reached_load == d.size_ok
        reached_model == /\ d.size_ok
                         /\ loaded.audio # None
                         /\ ~TooShort(Get(loaded.audio))
                         /\ d.features_ok
    IN  [ret       |-> out.ret,
         raised    |-> out.raised,
         error     |-> out.error,
         tried     |-> IF reached_load THEN loaded.tried ELSE <<>>,
         samples   |-> IF reached_load THEN loaded.audio ELSE None,
         inference |-> IF reached_model THEN 1 ELSE 0,
         temp      |-> IF reached_load THEN loaded.temp ELSE temp]

---------------------------------------------------------------------------
\* The collaborators (utils.py)

\* download_video (utils.py 6-33).  d.request_ok: requests.get and
\* raise_for_status succeed; d.stream_ok: every chunk is read and written;
\* d.size: the bytes of the body.  Gives the returned bool and the file at
\* output_path (None: no file, Some(bytes)).
download_video(d) ==
    IF ~d.request_ok THEN [ok |-> FALSE, file |-> None]
    ELSE IF ~d.stream_ok THEN [ok |-> FALSE, file |-> Some(d.size \div 2)]
    ELSE IF d.size = 0 THEN [ok |-> FALSE, file |-> Some(0)]
    ELSE [ok |-> TRUE, file |-> Some(d.size)]

\* 83: the floor extract_audio puts on the size of the file it wrote
MinExtractedBytes == 1000

\* extract_audio (utils.py 36-111).  d.clip_ok: VideoFileClip opens the file;
\* d.has_audio: clip.audio is not None; d.write_ok: write_audiofile returns;
\* d.written: the file at audio_path after write_audiofile (None, Some(bytes));
\* d.readable: the file can be opened and read.
extract_audio(d) ==
    IF ~d.clip_ok THEN [ok |-> FALSE, file |-> None]
    ELSE IF ~d.has_audio THEN [ok |-> FALSE, file |-> None]
    ELSE IF ~d.write_ok THEN [ok |-> FALSE, file |-> d.written]
    ELSE IF d.written = None THEN [ok |-> FALSE, file |-> None]
    ELSE IF Get(d.written) < MinExtractedBytes THEN [ok |-> FALSE, file |-> d.written]
    ELSE IF ~d.readable THEN [ok |-> FALSE, file |-> d.written]
    ELSE [ok |-> TRUE, file |-> d.written]

---------------------------------------------------------------------------
\* process (pipeline.py 135-249): the pieces of the result

\* 137-147
InitialResult(url) ==
    [status                       |-> "error",
     video_url                    |-> url,
     language                     |-> None,
     language_confidence          |-> 0,
     accent                       |-> None,
     accent_confidence            |-> 0,
     accent_confidence_percentage |-> 0,
     message                      |-> <<>>,
     summary                      |-> <<>>]


\* a variant of DownloadFailed: the message is not set
DownloadFailed_NoMessage(r) == r

\* 158-160
DownloadFailed(r) ==
    [r EXCEPT !.message = <<"Video download failed. Check URL or free up disk space.">>]

\* a variant of ExtractionFailed: the message is not set
ExtractionFailed_NoMessage(r) == r

\* 170-172
ExtractionFailed(r) ==
    [r EXCEPT !.message = <<"Audio extraction failed. Video may be corrupted.">>]

\* 177
AudioNotCreated(r) ==
    [r EXCEPT !.message = <<"Audio file not created">>]

\* 184-186
AudioTooSmallResult(r) ==
    [r EXCEPT !.message = <<"Audio file too small - may be silent or corrupted">>]


\* a variant of AudioTooSmall: the size is taken in KB, not MB
AudioTooSmall_InKB(bytes) == bytes * 100 < 1024

\* 180, 183: audio_size = bytes / (1024 * 1024); audio_size < 0.01
AudioTooSmall(bytes) == bytes * 100 < 1024 * 1024

\* a variant of LanguageDetected: the detection is not written to the result
LanguageDetected_NotRecorded(r, lang, lang_prob) == r

\* 192
LanguageDetected(r, lang, lang_prob) ==
    [r EXCEPT !.language = Some(lang), !.language_confidence = lang_prob]

\* 201: the language detection is taken to be uncertain
LangProbFloor == 100

\* a variant of Uncertain: the confidence is not looked at
Uncertain_UnknownOnly(lang, lang_prob) == lang = "unknown"

Uncertain(lang, lang_prob) == lang = "unknown" \/ lang_prob < LangProbFloor

\* 207: the accent score that makes the uncertain audio English
ScoreFloor == 300


\* a variant of Reasonable: the floor itself is accepted
Reasonable_AtFloor(info) == info.score >= ScoreFloor

Reasonable(info) == info.score > ScoreFloor

\* 212
ModerateConfidence == 500

\* a variant of ForcedEnglishResult: the language detected is kept
ForcedEnglishResult_KeepsLanguage(r, info) ==
    [r EXCEPT !.status = "success",
              !.language_confidence = ModerateConfidence,
              !.accent = Some(info.name),
              !.accent_confidence = info.score,
              !.accent_confidence_percentage = info.percent,
              !.message = <<"Language detection uncertain, but accent detected">>,
              !.summary = <<"Possibly ", info.name, " accent (", info.percent,
                            "% confidence) - language detection was uncertain">>]

\* 209-218
ForcedEnglishResult(r, info) ==
    [r EXCEPT !.status = "success",
              !.language = Some("en"),
              !.language_confidence = ModerateConfidence,
              !.accent = Some(info.name),
              !.accent_confidence = info.score,
              !.accent_confidence_percentage = info.percent,
              !.message = <<"Language detection uncertain, but accent detected">>,
              !.summary = <<"Possibly ", info.name, " accent (", info.percent,
                            "% confidence) - language detection was uncertain">>]


\* a variant of NonEnglishResult: the status is not set
NonEnglishResult_NoStatus(r, lang) ==
    [r EXCEPT !.message = <<"Non-English audio detected: ", lang>>,
              !.summary = <<"Accent detection only works for English audio.">>]

\* 222-226
NonEnglishResult(r, lang) ==
    [r EXCEPT !.status = "success",
              !.message = <<"Non-English audio detected: ", lang>>,
              !.summary = <<"Accent detection only works for English audio.">>]

\* 232-239
AccentResult(r, info) ==
    [r EXCEPT !.status = "success",
              !.accent = Some(info.name),
              !.accent_confidence = info.score,
              !.accent_confidence_percentage = info.percent,
              !.message = <<"Processing completed successfully">>,
              !.summary = <<"Detected ", info.name, " accent with ", info.percent,
                            "% confidence">>]

\* a variant of ProcessExcept: the message is not set
ProcessExcept_NoMessage(r, e) == r

\* 245-249
ProcessExcept(r, e) ==
    [r EXCEPT !.message = <<"Processing failed: ", e>>]

---------------------------------------------------------------------------
\* What the collaborators and the models may do: the inputs of the actions

\* bytes of a downloaded body
VideoBytes == {0, 2000000}

DownloadInputs ==
    [request_ok : BOOLEAN, stream_ok : BOOLEAN, size : VideoBytes]

\* bytes of an extracted audio file, around the floors of 1000 bytes, 10 KB
\* and 0.01 MB
AudioBytes == {0, 999, 1000, 10239, 10240, 10485, 10486}

ExtractInputs ==
    [clip_ok : BOOLEAN, has_audio : BOOLEAN, write_ok : BOOLEAN,
     written : {None} \cup {Some(b) : b \in AudioBytes}, readable : BOOLEAN]

\* what a decoder gives: None (it raises) or a number of samples
LibrosaOutcomes == {None, Some(0), Some(15999), Some(16000)}

LoadAudioOutcomes == {None, Some(15999), Some(16000)}

\* the languages of the model's distribution, in the order of the dict
LangKeys == <<"en", "fr", "de">>

\* probs: the dict detect_language returns, as the tuple of its items
Probs(en, fr, de) == <<<<LangKeys[1], en>>, <<LangKeys[2], fr>>, <<LangKeys[3], de>>>>

\* distributions with each of English and another language on top: well above
\* 0.1, at 0.1, and below it; with and without ties
Distributions ==
    {Probs(900, 50, 50), Probs(50, 900, 50), Probs(100, 99, 99), Probs(50, 100, 100),
     Probs(99, 50, 99), Probs(50, 99, 50), Probs(50, 99, 900)}

LanguageInputs ==
    [size_ok : BOOLEAN, librosa : LibrosaOutcomes, copy_ok : BOOLEAN,
     copy_load : LoadAudioOutcomes, remove_ok : BOOLEAN,
     abs_load : LoadAudioOutcomes, features_ok : BOOLEAN,
     probs : {None} \cup {Some(p) : p \in Distributions}]

\* labels the classifier may give: one of the table, one not in it
ModelLabels ==
    {<<"u","s">>, <<"u","k","-","n","I">>}

ScoreValues == {300, 301, 700}

ClassifyOutputs ==
    [labels : {<<>>} \cup {<<c>> : c \in ModelLabels},
     score  : {<<>>} \cup {<<s>> : s \in ScoreValues}]

ClassifyRaises == [1..3 -> BOOLEAN]

\* the outcomes an action draws from: all of them, or the one the fixed
\* outcomes give
Choices(k, all) == IF stub = None THEN all ELSE {Get(stub)[k]}

---------------------------------------------------------------------------
\* The state machine of process()

\* an entry of trace: the function called, the bool it returned (TRUE for the
\* two detection methods, which return a value) and the file it left
Called(fn, ok, file) == [fn |-> fn, ok |-> ok, file |-> file]

\* how often this call of process() invoked fn
Invocations(fn) == Cardinality({i \in 1..Len(trace) : trace[i].fn = fn})

NoLangLog == [error |-> None, tried |-> <<>>, samples |-> None, inference |-> 0]



\* a variant of Cleanup: only the video is removed
Cleanup_VideoOnly(f) == [f EXCEPT !.video = None]

\* 149, leaving the with block: TemporaryDirectory.cleanup removes the
\* directory and all it holds
Cleanup(f) == [f EXCEPT !.tmpdir = FALSE, !.video = None, !.audio = None]

\* a variant of Enter: each call loads the classifier again
Enter_Reloads ==
    /\ loader.pc = "constructed"
    /\ pc \in {"idle", "returned", "raised"}
    /\ ncalls < MaxCalls
    /\ \E url \in Choices("url", Urls), created \in Choices("created", BOOLEAN) :
        /\ video_url' = Some(url)
        /\ result' = Some(InitialResult(url))
        /\ fs' = [tmpdir |-> created, video |-> None, audio |-> None,
                  temp_audio |-> fs.temp_audio]
        /\ pc' = IF created THEN "download" ELSE "raised"
        /\ exc' = IF created THEN None ELSE Some("OSError: mkdtemp")
    /\ ncalls' = ncalls + 1
    /\ detected' = None
    /\ lang_log' = NoLangLog
    /\ accent_info' = None
    /\ accent_log' = <<>>
    /\ trace' = <<>>
    /\ self' = [self EXCEPT !.accent_classifier = Some(4)]
    /\ UNCHANGED <<model_dir, loader>>
    /\ UNCHANGED <<stub, ovars>>
    /\ UNCHANGED observed

\* 135-152: a call of process(url); tempfile.TemporaryDirectory() creates the
\* directory or raises, outside the try of 154
Enter ==
    /\ loader.pc = "constructed"
    /\ pc \in {"idle", "returned", "raised"}
    /\ ncalls < MaxCalls
    /\ \E url \in Choices("url", Urls), created \in Choices("created", BOOLEAN) :
        /\ video_url' = Some(url)
        /\ result' = Some(InitialResult(url))
        /\ fs' = [tmpdir |-> created, video |-> None, audio |-> None,
                  temp_audio |-> fs.temp_audio]
        /\ pc' = IF created THEN "download" ELSE "raised"
        /\ exc' = IF created THEN None ELSE Some("OSError: mkdtemp")
    /\ ncalls' = ncalls + 1
    /\ detected' = None
    /\ lang_log' = NoLangLog
    /\ accent_info' = None
    /\ accent_log' = <<>>
    /\ trace' = <<>>
    /\ UNCHANGED <<self, model_dir, loader>>
    /\ UNCHANGED <<stub, ovars>>
    /\ UNCHANGED observed

\* 155-161
Download ==
    /\ pc = "download"
    /\ \E d \in Choices("download", DownloadInputs) :
        LET got == download_video(d)
        IN  /\ fs' = [fs EXCEPT !.video = got.file]
            /\ trace' = Append(trace, Called("download_video", got.ok, got.file))
            /\ IF ~got.ok
               THEN /\ result' = Some(DownloadFailed(Get(result)))
                    /\ pc' = "exit"
               ELSE /\ pc' = "video_size"
                    /\ UNCHANGED result
    /\ UNCHANGED <<ncalls, video_url, detected, lang_log, accent_info, accent_log, exc>>
    /\ UNCHANGED <<self, model_dir, loader>>
    /\ UNCHANGED <<stub, ovars>>
    /\ UNCHANGED observed

\* 164, and 245-249 when os.path.getsize raises
VideoSize ==
    /\ pc = "video_size"
    /\ \E size_ok \in Choices("video_size_ok", BOOLEAN) :
        IF size_ok
        THEN /\ pc' = "extract"
             /\ UNCHANGED <<result, exc>>
        ELSE /\ exc' = Some("OSError: getsize(video_path)")
             /\ result' = Some(ProcessExcept(Get(result), Get(exc')))
             /\ pc' = "exit"
    /\ UNCHANGED <<ncalls, video_url, fs, detected, lang_log, accent_info, accent_log,
                   trace>>
    /\ UNCHANGED <<self, model_dir, loader>>
    /\ UNCHANGED <<stub, ovars>>
    /\ UNCHANGED observed

\* 167-173
Extract ==
    /\ pc = "extract"
    /\ \E d \in Choices("extract", ExtractInputs) :
        LET got == extract_audio(d)
        IN  /\ fs' = [fs EXCEPT !.audio = got.file]
            /\ trace' = Append(trace, Called("extract_audio", got.ok, got.file))
            /\ IF ~got.ok
               THEN /\ result' = Some(ExtractionFailed(Get(result)))
                    /\ pc' = "exit"
               ELSE /\ pc' = "validate"
                    /\ UNCHANGED result
    /\ UNCHANGED <<ncalls, video_url, detected, lang_log, accent_info, accent_log, exc>>
    /\ UNCHANGED <<self, model_dir, loader>>
    /\ UNCHANGED <<stub, ovars>>
    /\ UNCHANGED observed

\* 175-187, and 245-249 when os.path.getsize raises
Validate ==
    /\ pc = "validate"
    /\ \E size_ok \in Choices("audio_size_ok", BOOLEAN) :
        IF fs.audio = None
        THEN /\ result' = Some(AudioNotCreated(Get(result)))
             /\ pc' = "exit"
             /\ UNCHANGED exc
        ELSE IF ~size_ok
        THEN /\ exc' = Some("OSError: getsize(audio_path)")
             /\ result' = Some(ProcessExcept(Get(result), Get(exc')))
             /\ pc' = "exit"
        ELSE IF AudioTooSmall(Get(fs.audio))
        THEN /\ result' = Some(AudioTooSmallResult(Get(result)))
             /\ pc' = "exit"
             /\ UNCHANGED exc
        ELSE /\ pc' = "detect_language"
             /\ UNCHANGED <<result, exc>>
    /\ UNCHANGED <<ncalls, video_url, fs, detected, lang_log, accent_info, accent_log,
                   trace>>
    /\ UNCHANGED <<self, model_dir, loader>>
    /\ UNCHANGED <<stub, ovars>>
    /\ UNCHANGED observed

\* 189-201: the call of _detect_language_detailed and the test of 201
DetectLanguage ==
    /\ pc = "detect_language"
    /\ \E d \in Choices("language", LanguageInputs) :
        LET r == _detect_language_detailed(d, fs.temp_audio)
        IN  /\ fs' = [fs EXCEPT !.temp_audio = r.temp]
            /\ lang_log' = [error |-> r.error, tried |-> r.tried,
                            samples |-> r.samples, inference |-> r.inference]
            /\ IF r.raised # None
               THEN /\ exc' = r.raised
                    /\ result' = Some(ProcessExcept(Get(result), Get(r.raised)))
                    /\ detected' = None
                    /\ pc' = "exit"
               ELSE /\ detected' = Some(r.ret)
                    /\ result' = Some(LanguageDetected(Get(result), r.ret[1], r.ret[2]))
                    /\ pc' = IF Uncertain(r.ret[1], r.ret[2])
                             THEN "forced_english" ELSE "language_check"
                    /\ UNCHANGED exc
    /\ trace' = Append(trace, Called("_detect_language_detailed", TRUE, None))
    /\ UNCHANGED <<ncalls, video_url, accent_info, accent_log>>
    /\ UNCHANGED <<self, model_dir, loader>>
    /\ UNCHANGED <<stub, ovars>>
    /\ UNCHANGED observed

\* what one invocation of _detect_accent leaves in accent_log
AccentLogEntry(a) == [tried |-> a.tried, error |-> a.error, ret |-> a.ret]

\* 200-219: the forced English detection
ForcedEnglish ==
    /\ pc = "forced_english"
    /\ \E raises \in Choices("raises", ClassifyRaises), out \in Choices("out", ClassifyOutputs) :
        LET a == _detect_accent(fs.audio # None, raises, out)
        IN  /\ accent_info' = a.ret
            /\ accent_log' = Append(accent_log, AccentLogEntry(a))
            /\ IF a.raised # None
               THEN /\ exc' = a.raised
                    /\ result' = Some(ProcessExcept(Get(result), Get(a.raised)))
                    /\ pc' = "exit"
               ELSE IF a.ret = None
               THEN /\ exc' = Some("TypeError: 'NoneType' object is not subscriptable")
                    /\ result' = Some(ProcessExcept(Get(result), Get(exc')))
                    /\ pc' = "exit"
               ELSE IF Reasonable(Get(a.ret))
               THEN /\ result' = Some(ForcedEnglishResult(Get(result), Get(a.ret)))
                    /\ pc' = "exit"
                    /\ UNCHANGED exc
               ELSE /\ pc' = "language_check"
                    /\ UNCHANGED <<result, exc>>
    /\ trace' = Append(trace, Called("_detect_accent", TRUE, None))
    /\ UNCHANGED <<ncalls, video_url, fs, detected, lang_log>>
    /\ UNCHANGED <<self, model_dir, loader>>
    /\ UNCHANGED <<stub, ovars>>
    /\ UNCHANGED observed

\* 221-227
NonEnglish ==
    /\ pc = "language_check"
    /\ Get(detected)[1] # "en"
    /\ result' = Some(NonEnglishResult(Get(result), Get(detected)[1]))
    /\ pc' = "exit"
    /\ UNCHANGED <<ncalls, video_url, fs, detected, lang_log, accent_info, accent_log,
                   trace, exc>>
    /\ UNCHANGED <<self, model_dir, loader>>
    /\ UNCHANGED <<stub, ovars>>
    /\ UNCHANGED observed

\* 229-243
Accent ==
    /\ pc = "language_check"
    /\ Get(detected)[1] = "en"
    /\ \E raises \in Choices("raises", ClassifyRaises), out \in Choices("out", ClassifyOutputs) :
        LET a == _detect_accent(fs.audio # None, raises, out)
        IN  /\ accent_info' = a.ret
            /\ accent_log' = Append(accent_log, AccentLogEntry(a))
            /\ IF a.raised # None
               THEN /\ exc' = a.raised
                    /\ result' = Some(ProcessExcept(Get(result), Get(a.raised)))
               ELSE IF a.ret = None
               THEN /\ exc' = Some("TypeError: 'NoneType' object is not subscriptable")
                    /\ result' = Some(ProcessExcept(Get(result), Get(exc')))
               ELSE /\ result' = Some(AccentResult(Get(result), Get(a.ret)))
                    /\ UNCHANGED exc
    /\ pc' = "exit"
    /\ trace' = Append(trace, Called("_detect_accent", TRUE, None))
    /\ UNCHANGED <<ncalls, video_url, fs, detected, lang_log>>
    /\ UNCHANGED <<self, model_dir, loader>>
    /\ UNCHANGED <<stub, ovars>>
    /\ UNCHANGED observed

\* 149: every return of 161-249 leaves the with block, whose exit removes the
\* directory; a removal that raises replaces the return
Exit ==
    /\ pc = "exit"
    /\ \E removed \in Choices("removed", BOOLEAN) :
        IF removed
        THEN /\ fs' = Cleanup(fs)
             /\ pc' = "returned"
             /\ observed' = IF stub = None THEN observed ELSE Append(observed, result)
             /\ UNCHANGED exc
        ELSE /\ pc' = "raised"
             /\ exc' = Some("PermissionError: rmtree")
             /\ UNCHANGED <<fs, observed>>
    /\ UNCHANGED <<ncalls, video_url, result, detected, lang_log, accent_info,
                   accent_log, trace>>
    /\ UNCHANGED <<self, model_dir, loader>>
    /\ UNCHANGED <<stub, ovars>>

---------------------------------------------------------------------------
\* Construction: __init__ (17-49) and _load_accent_classifier (51-133)
\*
\* model_dir is "absent", "empty", "previous" (what an earlier run left),
\* "partial" (some files of a tree), "downloaded" (the copy of tier 2),
\* "fetched" (the copy of tier 3) or "saved" (what tier 4 saved).
\* self.accent_classifier is Some(n) for the handle from_hparams gave in tier n.

\* what ./pretrained_models/accent_ecapa holds when construction begins
InitialDirs == {"absent", "empty", "previous"}

\* the exceptions a step of the loader raises
LoadErrors == {"OSError: [WinError 1314] symlink", "ConnectionError"}

\* an entry of loader.log: a tier that ended, with the exception that ended it
\* (None: it completed)
Tier(n, e) == [tier |-> n, error |-> e]

\* a variant of NonEmpty: exists() alone
NonEmpty_Exists(dir) == dir # "absent"

\* 55: model_dir.exists() and any(model_dir.iterdir())
NonEmpty(dir) == dir \notin {"absent", "empty"}

\* a variant of LoadFailure: the message without final_e
LoadFailure_NoCause(final_e) ==
    <<"Failed to load accent classifier after all attempts. ",
      "Try running as administrator or enable Windows Developer Mode.">>

\* 129-133: the message of the RuntimeError
LoadFailure(final_e) ==
    <<"Failed to load accent classifier after all attempts. ",
      "Last error: ", final_e, ". ",
      "Try running as administrator or enable Windows Developer Mode.">>

\* 81-82, 104-105: what a shutil.rmtree that raises may leave
RmtreeLeaves(dir) == IF dir \in {"absent", "empty"} THEN {dir} ELSE {dir, "partial"}

\* what a shutil.copytree that raises may leave at a destination that was absent
CopytreeLeaves == {"absent", "partial"}

\* a variant of copytree: the tree is merged into what is there
copytree_Merged(src, ok, left) == IF ok THEN "partial" ELSE left

\* 83, 106: shutil.copytree to model_dir; src names the tree copied
copytree(src, ok, left) == IF ok THEN src ELSE left

\* the state of the loader after a tier ended with e
Ended(n, e, next) == [loader EXCEPT !.log = Append(@, Tier(n, e)), !.pc = next]

\* 23: whisper.load_model
LoadWhisper ==
    /\ loader.pc = "whisper"
    /\ \E ok \in BOOLEAN :
        IF ok
        THEN /\ self' = [self EXCEPT !.whisper_model = Some("base")]
             /\ loader' = [loader EXCEPT !.pc = "tier1"]
        ELSE /\ loader' = [loader EXCEPT !.pc = "failed",
                                         !.raised = Some(<<"RuntimeError: whisper.load_model">>)]
             /\ UNCHANGED self
    /\ UNCHANGED <<model_dir, pvars, stub, observed, ovars>>

\* 55-65: the local directory
Tier1 ==
    /\ loader.pc = "tier1"
    /\ \E ok \in BOOLEAN, e \in LoadErrors :
        IF ~NonEmpty(model_dir)
        THEN /\ loader' = [loader EXCEPT !.pc = "tier2_download"]
             /\ UNCHANGED self
        ELSE IF ok
        THEN /\ self' = [self EXCEPT !.accent_classifier = Some(1)]
             /\ loader' = Ended(1, None, "mapping")
        ELSE /\ loader' = Ended(1, Some(e), "tier2_download")
             /\ UNCHANGED self
    /\ UNCHANGED <<model_dir, pvars, stub, observed, ovars>>

\* a variant of Tier2Download: model_dir is removed before the download
Tier2Download_RemovesFirst ==
    /\ loader.pc = "tier2_download"
    /\ \E ok \in BOOLEAN, e \in LoadErrors :
        IF ok
        THEN /\ self' = [self EXCEPT !.accent_classifier = Some(2)]
             /\ loader' = [loader EXCEPT !.pc = "tier2_remove", !.before = model_dir]
        ELSE /\ loader' = [Ended(2, Some(e), "tier3_fetch") EXCEPT !.before = model_dir]
             /\ UNCHANGED self
    /\ model_dir' = "absent"
    /\ UNCHANGED <<pvars, stub, observed, ovars>>

\* 68-77: the TemporaryDirectory and the download into it; 74 assigns the handle
Tier2Download ==
    /\ loader.pc = "tier2_download"
    /\ \E ok \in BOOLEAN, e \in LoadErrors :
        IF ok
        THEN /\ self' = [self EXCEPT !.accent_classifier = Some(2)]
             /\ loader' = [loader EXCEPT !.pc = "tier2_remove", !.before = model_dir]
        ELSE /\ loader' = [Ended(2, Some(e), "tier3_fetch") EXCEPT !.before = model_dir]
             /\ UNCHANGED self
    /\ UNCHANGED <<model_dir, pvars, stub, observed, ovars>>

\* 80-82: mkdir of the parent, rmtree of model_dir if it exists
Tier2Remove ==
    /\ loader.pc = "tier2_remove"
    /\ \E ok \in BOOLEAN, e \in LoadErrors, left \in RmtreeLeaves(model_dir) :
        IF ok
        THEN /\ model_dir' = "absent"
             /\ loader' = [loader EXCEPT !.pc = "tier2_copy"]
        ELSE /\ model_dir' = left
             /\ loader' = Ended(2, Some(e), "tier3_fetch")
    /\ UNCHANGED <<self, pvars, stub, observed, ovars>>

\* 83
Tier2Copy ==
    /\ loader.pc = "tier2_copy"
    /\ \E ok \in BOOLEAN, e \in LoadErrors, left \in CopytreeLeaves :
        /\ model_dir' = copytree("downloaded", ok, left)
        /\ loader' = IF ok THEN [loader EXCEPT !.pc = "tier2_cleanup"]
                     ELSE Ended(2, Some(e), "tier3_fetch")
    /\ UNCHANGED <<self, pvars, stub, observed, ovars>>

\* 85-89: the return of 86 leaves the with block of 70, whose exit removes the
\* temporary directory; a removal that raises is caught at 88
Tier2Cleanup ==
    /\ loader.pc = "tier2_cleanup"
    /\ \E ok \in BOOLEAN, e \in LoadErrors :
        loader' = IF ok THEN Ended(2, None, "mapping")
                  ELSE Ended(2, Some(e), "tier3_fetch")
    /\ UNCHANGED <<self, model_dir, pvars, stub, observed, ovars>>

\* 92-100: snapshot_download into ./hf_cache
Tier3Fetch ==
    /\ loader.pc = "tier3_fetch"
    /\ \E ok \in BOOLEAN, e \in LoadErrors :
        loader' = IF ok THEN [loader EXCEPT !.pc = "tier3_remove", !.before = model_dir]
                  ELSE [Ended(3, Some(e), "tier4") EXCEPT !.before = model_dir]
    /\ UNCHANGED <<self, model_dir, pvars, stub, observed, ovars>>

\* 103-105
Tier3Remove ==
    /\ loader.pc = "tier3_remove"
    /\ \E ok \in BOOLEAN, e \in LoadErrors, left \in RmtreeLeaves(model_dir) :
        IF ok
        THEN /\ model_dir' = "absent"
             /\ loader' = [loader EXCEPT !.pc = "tier3_copy"]
        ELSE /\ model_dir' = left
             /\ loader' = Ended(3, Some(e), "tier4")
    /\ UNCHANGED <<self, pvars, stub, observed, ovars>>

\* 106
Tier3Copy ==
    /\ loader.pc = "tier3_copy"
    /\ \E ok \in BOOLEAN, e \in LoadErrors, left \in CopytreeLeaves :
        /\ model_dir' = copytree("fetched", ok, left)
        /\ loader' = IF ok THEN [loader EXCEPT !.pc = "tier3_load"]
                     ELSE Ended(3, Some(e), "tier4")
    /\ UNCHANGED <<self, pvars, stub, observed, ovars>>

\* 108-113: from_hparams on the copied files
Tier3Load ==
    /\ loader.pc = "tier3_load"
    /\ \E ok \in BOOLEAN, e \in LoadErrors :
        IF ok
        THEN /\ self' = [self EXCEPT !.accent_classifier = Some(3)]
             /\ loader' = Ended(3, None, "mapping")
        ELSE /\ loader' = Ended(3, Some(e), "tier4")
             /\ UNCHANGED self
    /\ UNCHANGED <<model_dir, pvars, stub, observed, ovars>>

\* what the from_hparams of 122-125 may leave in its savedir, which is
\* model_dir: the files it saved, or some of them when it raised
SavedirLeaves(dir, ok) ==
    IF dir \notin {"absent", "empty"} THEN {dir}
    ELSE IF ok THEN {"saved"}
    ELSE {dir, "partial"}

\* 115-133: the plain from_hparams, and the RuntimeError when it raises
Tier4 ==
    /\ loader.pc = "tier4"
    /\ \E ok \in BOOLEAN, final_e \in LoadErrors :
        /\ \E left \in SavedirLeaves(model_dir, ok) : model_dir' = left
        /\ IF ok
           THEN /\ self' = [self EXCEPT !.accent_classifier = Some(4)]
                /\ loader' = Ended(4, None, "mapping")
           ELSE /\ loader' = [Ended(4, Some(final_e), "failed")
                                 EXCEPT !.raised = Some(LoadFailure(final_e))]
                /\ UNCHANGED self
    /\ UNCHANGED <<pvars, stub, observed, ovars>>

\* 29-49: back in __init__, the label mapping
SetMapping ==
    /\ loader.pc = "mapping"
    /\ self' = [self EXCEPT !.accent_mapping = Some(accent_mapping)]
    /\ loader' = [loader EXCEPT !.pc = "constructed"]
    /\ UNCHANGED <<model_dir, pvars, stub, observed, ovars>>

\* the object before __init__ assigned anything
Unbuilt == [whisper_model |-> None, accent_classifier |-> None, accent_mapping |-> None]

\* the object of a construction whose tier 1 loaded the local directory
Built ==
    [whisper_model |-> Some("base"), accent_classifier |-> Some(1),
     accent_mapping |-> Some(accent_mapping)]

---------------------------------------------------------------------------
\* Concurrent calls of process() on one pipeline object: the threads of the
\* Streamlit sessions, which share the object of st.cache_resource
\* (streamlit_app.py 16-22, 119).  Each thread runs process(); flow[t] keeps
\* its position and files[p] the thread that wrote the file at path p.

Threads == {"session1", "session2"}

\* the names tempfile.TemporaryDirectory() may give
DirNames == {"tmp_a", "tmp_b"}

\* 283: os.path.join(os.getcwd(), "temp_audio_whisper.wav")
temp_audio == <<".", "temp_audio_whisper.wav">>

\* 151-152: video_path, audio_path
video_path(d) == <<d, "video.mp4">>

audio_path(d) == <<d, "audio.wav">>

FilePaths == {video_path(d) : d \in DirNames} \cup {audio_path(d) : d \in DirNames}
                 \cup {temp_audio}

IdleFlow == [pc |-> "idle", tmpdir |-> None, foreign |-> {}]

NoFiles == [p \in FilePaths |-> None]

\* thread t does op on the file at p: noted when another thread wrote it
Touch(t, op, p) ==
    IF files[p] # None /\ files[p] # Some(t) THEN {<<op, p[2]>>} ELSE {}

\* flow[t] at position next, having done ops on files
Moved(t, next, ops) ==
    [flow EXCEPT ![t].pc = next, ![t].foreign = @ \cup ops]

\* thread t is inside whisper's detect_language (321) or classify_file (362)
InInference(t) == flow[t].pc \in {"detecting", "classifying_forced", "classifying"}

\* 149-152: TemporaryDirectory() makes a directory under a name not in use
FlowEnter(t) ==
    /\ flow[t].pc \in {"idle", "returned"}
    /\ \E d \in DirNames :
        /\ \A u \in Threads : flow[u].tmpdir # Some(d)
        /\ flow' = [flow EXCEPT ![t].pc = "download", ![t].tmpdir = Some(d)]
    /\ UNCHANGED files
    /\ UNCHANGED <<pvars, lvars, stub, observed, fn_in, fn_out>>

\* 157-164: download_video writes video_path
FlowDownload(t) ==
    /\ flow[t].pc = "download"
    /\ LET p == video_path(Get(flow[t].tmpdir))
       IN  \E ok \in BOOLEAN :
            /\ flow' = Moved(t, IF ok THEN "extract" ELSE "exit", Touch(t, "overwrite", p))
            /\ files' = [files EXCEPT ![p] = Some(t)]
    /\ UNCHANGED <<pvars, lvars, stub, observed, fn_in, fn_out>>

\* 169-187: extract_audio reads video_path and writes audio_path
FlowExtract(t) ==
    /\ flow[t].pc = "extract"
    /\ LET v == video_path(Get(flow[t].tmpdir))
           p == audio_path(Get(flow[t].tmpdir))
       IN  \E ok \in BOOLEAN :
            /\ flow' = Moved(t, IF ok THEN "librosa" ELSE "exit",
                             Touch(t, "read", v) \cup Touch(t, "overwrite", p))
            /\ files' = [files EXCEPT ![p] = Some(t)]
    /\ UNCHANGED <<pvars, lvars, stub, observed, fn_in, fn_out>>

\* 262-273: librosa.load(audio_path)
FlowLibrosa(t) ==
    /\ flow[t].pc = "librosa"
    /\ \E ok \in BOOLEAN :
        flow' = Moved(t, IF ok THEN "detect_language" ELSE "copy",
                      Touch(t, "read", audio_path(Get(flow[t].tmpdir))))
    /\ UNCHANGED files
    /\ UNCHANGED <<pvars, lvars, stub, observed, fn_in, fn_out>>

\* 283-284: shutil.copy2(audio_path, temp_audio)
FlowCopy(t) ==
    /\ flow[t].pc = "copy"
    /\ \E ok \in BOOLEAN :
        IF ok
        THEN /\ flow' = Moved(t, "load_copy", Touch(t, "overwrite", temp_audio))
             /\ files' = [files EXCEPT ![temp_audio] = Some(t)]
        ELSE /\ flow' = Moved(t, "abspath", {})
             /\ UNCHANGED files
    /\ UNCHANGED <<pvars, lvars, stub, observed, fn_in, fn_out>>

\* 287: whisper.load_audio(temp_audio), which raises when the file is gone
FlowLoadCopy(t) ==
    /\ flow[t].pc = "load_copy"
    /\ \E ok \in BOOLEAN :
        flow' = Moved(t, IF ok /\ files[temp_audio] # None THEN "remove" ELSE "abspath",
                      Touch(t, "read", temp_audio))
    /\ UNCHANGED files
    /\ UNCHANGED <<pvars, lvars, stub, observed, fn_in, fn_out>>

\* 290-293: os.remove(temp_audio), its exception ignored
FlowRemove(t) ==
    /\ flow[t].pc = "remove"
    /\ \E ok \in BOOLEAN :
        IF ok /\ files[temp_audio] # None
        THEN /\ flow' = Moved(t, "detect_language", Touch(t, "delete", temp_audio))
             /\ files' = [files EXCEPT ![temp_audio] = None]
        ELSE /\ flow' = Moved(t, "detect_language", {})
             /\ UNCHANGED files
    /\ UNCHANGED <<pvars, lvars, stub, observed, fn_in, fn_out>>

\* 299-307: whisper.load_audio of the absolute audio_path; 334-338 and 201
\* when it raises
FlowAbspath(t) ==
    /\ flow[t].pc = "abspath"
    /\ \E ok \in BOOLEAN :
        flow' = Moved(t, IF ok THEN "detect_language" ELSE "forced_english",
                      Touch(t, "read", audio_path(Get(flow[t].tmpdir))))
    /\ UNCHANGED files
    /\ UNCHANGED <<pvars, lvars, stub, observed, fn_in, fn_out>>

\* 309-321: whisper's detect_language begins
FlowDetectBegin(t) ==
    /\ flow[t].pc = "detect_language"
    /\ flow' = Moved(t, "detecting", {})
    /\ UNCHANGED files
    /\ UNCHANGED <<pvars, lvars, stub, observed, fn_in, fn_out>>

\* 321-338, 201, 221-229: it ends, and process() goes on to the forced
\* English detection, to the accent, or to its return
FlowDetectEnd(t) ==
    /\ flow[t].pc = "detecting"
    /\ \E next \in {"forced_english", "accent", "exit"} : flow' = Moved(t, next, {})
    /\ UNCHANGED files
    /\ UNCHANGED <<pvars, lvars, stub, observed, fn_in, fn_out>>

\* 206, 362: classify_file of the forced English detection begins
FlowForcedBegin(t) ==
    /\ flow[t].pc = "forced_english"
    /\ flow' = Moved(t, "classifying_forced",
                     Touch(t, "read", audio_path(Get(flow[t].tmpdir))))
    /\ UNCHANGED files
    /\ UNCHANGED <<pvars, lvars, stub, observed, fn_in, fn_out>>

\* 207-229: it ends
FlowForcedEnd(t) ==
    /\ flow[t].pc = "classifying_forced"
    /\ \E next \in {"accent", "exit"} : flow' = Moved(t, next, {})
    /\ UNCHANGED files
    /\ UNCHANGED <<pvars, lvars, stub, observed, fn_in, fn_out>>

\* 231, 362: classify_file begins
FlowAccentBegin(t) ==
    /\ flow[t].pc = "accent"
    /\ flow' = Moved(t, "classifying",
                     Touch(t, "read", audio_path(Get(flow[t].tmpdir))))
    /\ UNCHANGED files
    /\ UNCHANGED <<pvars, lvars, stub, observed, fn_in, fn_out>>

\* 232-243: it ends
FlowAccentEnd(t) ==
    /\ flow[t].pc = "classifying"
    /\ flow' = Moved(t, "exit", {})
    /\ UNCHANGED files
    /\ UNCHANGED <<pvars, lvars, stub, observed, fn_in, fn_out>>

\* 149: leaving the with block removes the directory and its files
FlowExit(t) ==
    /\ flow[t].pc = "exit"
    /\ LET d == Get(flow[t].tmpdir)
       IN  /\ flow' = [flow EXCEPT ![t].pc = "returned", ![t].tmpdir = None]
           /\ files' = [files EXCEPT ![video_path(d)] = None, ![audio_path(d)] = None]
    /\ UNCHANGED <<pvars, lvars, stub, observed, fn_in, fn_out>>

ConcurrentInit ==
    /\ flow = [t \in Threads |-> IdleFlow]
    /\ files = NoFiles

---------------------------------------------------------------------------
\* Direct calls of _detect_accent, the audio file present or not

AccentArgs == [exists0 : BOOLEAN, raises : ClassifyRaises, out : ClassifyOutputs]

CallDetectAccent ==
    /\ fn_in # None
    /\ fn_out = None
    /\ fn_out' = Some(_detect_accent(Get(fn_in).exists0, Get(fn_in).raises, Get(fn_in).out))
    /\ UNCHANGED <<fn_in, flow, files, pvars, lvars, stub, observed>>

---------------------------------------------------------------------------
\* Direct calls of _detect_language_detailed, ./temp_audio_whisper.wav there
\* or not

LanguageArgs == [d : LanguageInputs, temp : BOOLEAN]

CallDetectLanguage ==
    /\ fn_in # None
    /\ fn_out = None
    /\ fn_out' = Some(_detect_language_detailed(Get(fn_in).d, Get(fn_in).temp))
    /\ UNCHANGED <<fn_in, flow, files, pvars, lvars, stub, observed>>

---------------------------------------------------------------------------
\* The specifications

\* no call of process() yet
NoCalls ==
    /\ pc = "idle"
    /\ ncalls = 0
    /\ video_url = None
    /\ result = None
    /\ fs = [tmpdir |-> FALSE, video |-> None, audio |-> None, temp_audio |-> FALSE]
    /\ detected = None
    /\ lang_log = NoLangLog
    /\ accent_info = None
    /\ accent_log = <<>>
    /\ trace = <<>>
    /\ exc = None

\* a constructed pipeline, before its first process() call
Init ==
    /\ NoCalls
    /\ self = Built
    /\ model_dir = "previous"
    /\ loader = [pc |-> "constructed", log |-> <<Tier(1, None)>>, raised |-> None,
                 found |-> "previous", before |-> "previous"]
    /\ stub = None
    /\ observed = <<>>
    /\ ConcurrentInit
    /\ fn_in = None
    /\ fn_out = None

Next ==
    \/ Enter
    \/ Download
    \/ VideoSize
    \/ Extract
    \/ Validate
    \/ DetectLanguage
    \/ ForcedEnglish
    \/ NonEnglish
    \/ Accent
    \/ Exit

Spec == Init /\ [][Next]_vars

\* The same calls, no step of which waits for ever: each call process() makes
\* (download, extraction, decode, inference, the directory's creation and
\* removal) returns or raises, and the caller makes its next call
LiveSpec == Init /\ [][Next]_vars /\ WF_vars(Next)

\* Construction, and the first process() call it allows: __init__ begins with
\* nothing assigned
LoaderInit ==
    /\ NoCalls
    /\ self = Unbuilt
    /\ model_dir \in InitialDirs
    /\ loader = [pc |-> "whisper", log |-> <<>>, raised |-> None,
                 found |-> model_dir, before |-> model_dir]
    /\ stub = None
    /\ observed = <<>>
    /\ ConcurrentInit
    /\ fn_in = None
    /\ fn_out = None

LoaderNext ==
    \/ LoadWhisper
    \/ Tier1
    \/ Tier2Download
    \/ Tier2Remove
    \/ Tier2Copy
    \/ Tier2Cleanup
    \/ Tier3Fetch
    \/ Tier3Remove
    \/ Tier3Copy
    \/ Tier3Load
    \/ Tier4
    \/ SetMapping
    \/ Enter

LoaderSpec == LoaderInit /\ [][LoaderNext]_vars

\* Fixed outcomes: collaborators and models that give the same outcome each
\* time they are asked.  StubBase is a call in which everything succeeds;
\* Stubs varies the outcomes of one step at a time.
StubBase ==
    [url           |-> "http://a/ok.mp4",
     created       |-> TRUE,
     download      |-> [request_ok |-> TRUE, stream_ok |-> TRUE, size |-> 2000000],
     video_size_ok |-> TRUE,
     extract       |-> [clip_ok |-> TRUE, has_audio |-> TRUE, write_ok |-> TRUE,
                        written |-> Some(10486), readable |-> TRUE],
     audio_size_ok |-> TRUE,
     language      |-> [size_ok |-> TRUE, librosa |-> Some(16000), copy_ok |-> TRUE,
                        copy_load |-> Some(16000), remove_ok |-> TRUE,
                        abs_load |-> Some(16000), features_ok |-> TRUE,
                        probs |-> Some(Probs(900, 50, 50))],
     raises        |-> [i \in 1..3 |-> FALSE],
     out           |-> [labels |-> <<<<"u","s">>>>, score |-> <<700>>],
     removed       |-> TRUE]

Stubs ==
    {[StubBase EXCEPT !.url = u] : u \in Urls}
        \cup {[StubBase EXCEPT !.created = b] : b \in BOOLEAN}
        \cup {[StubBase EXCEPT !.download = d] : d \in DownloadInputs}
        \cup {[StubBase EXCEPT !.video_size_ok = b] : b \in BOOLEAN}
        \cup {[StubBase EXCEPT !.extract = d] : d \in ExtractInputs}
        \cup {[StubBase EXCEPT !.audio_size_ok = b] : b \in BOOLEAN}
        \cup {[StubBase EXCEPT !.language = d] : d \in LanguageInputs}
        \cup {[StubBase EXCEPT !.language.probs = Some(Probs(50, 99, 50)),
                                !.raises = r, !.out = o] :
                  r \in ClassifyRaises, o \in ClassifyOutputs}
        \cup {[StubBase EXCEPT !.raises = r, !.out = o] :
                  r \in ClassifyRaises, o \in ClassifyOutputs}
        \cup {[StubBase EXCEPT !.removed = b] : b \in BOOLEAN}

\* process() called one time after the other with fixed outcomes
StubInit ==
    /\ NoCalls
    /\ self = Built
    /\ model_dir = "previous"
    /\ loader = [pc |-> "constructed", log |-> <<Tier(1, None)>>, raised |-> None,
                 found |-> "previous", before |-> "previous"]
    /\ stub \in {Some(s) : s \in Stubs}
    /\ observed = <<>>
    /\ ConcurrentInit
    /\ fn_in = None
    /\ fn_out = None

StubSpec == StubInit /\ [][Next]_vars

\* Two threads calling process() on the constructed pipeline
ConcurrentNext ==
    \E t \in Threads :
        \/ FlowEnter(t)
        \/ FlowDownload(t)
        \/ FlowExtract(t)
        \/ FlowLibrosa(t)
        \/ FlowCopy(t)
        \/ FlowLoadCopy(t)
        \/ FlowRemove(t)
        \/ FlowAbspath(t)
        \/ FlowDetectBegin(t)
        \/ FlowDetectEnd(t)
        \/ FlowForcedBegin(t)
        \/ FlowForcedEnd(t)
        \/ FlowAccentBegin(t)
        \/ FlowAccentEnd(t)
        \/ FlowExit(t)

ConcurrentSpec == Init /\ [][ConcurrentNext]_vars

\* _detect_accent called on every combination of its arguments' cases
AccentInit ==
    /\ NoCalls
    /\ self = Built
    /\ model_dir = "previous"
    /\ loader = [pc |-> "constructed", log |-> <<Tier(1, None)>>, raised |-> None,
                 found |-> "previous", before |-> "previous"]
    /\ stub = None
    /\ observed = <<>>
    /\ ConcurrentInit
    /\ fn_in \in {Some(a) : a \in AccentArgs}
    /\ fn_out = None

AccentNext == CallDetectAccent

AccentSpec == AccentInit /\ [][AccentNext]_vars

\* _detect_language_detailed called on every combination of what the decoders
\* and the model give
LanguageInit ==
    /\ NoCalls
    /\ self = Built
    /\ model_dir = "previous"
    /\ loader = [pc |-> "constructed", log |-> <<Tier(1, None)>>, raised |-> None,
                 found |-> "previous", before |-> "previous"]
    /\ stub = None
    /\ observed = <<>>
    /\ ConcurrentInit
    /\ fn_in \in {Some(a) : a \in LanguageArgs}
    /\ fn_out = None

LanguageNext == CallDetectLanguage

LanguageSpec == LanguageInit /\ [][LanguageNext]_vars

---------------------------------------------------------------------------
\* Properties

\* process() has returned its result to the caller
Returned == pc = "returned"

\* the value _detect_language_detailed returned to process()
Lang == Get(detected)[1]

LangProb == Get(detected)[2]

\* the last invocation of _detect_accent in this call
LastAccent == accent_log[Len(accent_log)]

\* C1: every call of process returns a result record and never lets an
\* exception reach its caller; an exception raised by any step, the creation
\* and the removal of the temporary directory included, becomes a result with
\* status "error" and the message "Processing failed: <cause>".
C1_NeverRaises ==
    /\ pc # "raised"
    /\ (Returned /\ exc # None) =>
        /\ Get(result).status = "error"
        /\ Get(result).message = <<"Processing failed: ", Get(exc)>>

\* C2: once process has returned, on whichever path, the temporary directory
\* and the files video.mp4 and audio.wav in it no longer exist.
C2_WorkingAreaRemoved ==
    Returned => (~fs.tmpdir /\ fs.video = None /\ fs.audio = None)

\* a call that wrote both files and then returned
C2_Witness ==
    /\ Returned
    /\ Get(result).status = "success"
    /\ \E i \in 1..Len(trace) : trace[i].fn = "download_video" /\ trace[i].file # None
    /\ \E i \in 1..Len(trace) : trace[i].fn = "extract_audio" /\ trace[i].file # None

\* download_video returned false in this call
DownloadReturnedFalse ==
    \E i \in 1..Len(trace) : trace[i].fn = "download_video" /\ ~trace[i].ok

\* C3: when download_video returns false, neither extract_audio nor either
\* detection is invoked, and the result returned has status "error", a message
\* that names the download, and language and accent null.
C3_DownloadFailure ==
    DownloadReturnedFalse =>
        /\ Invocations("extract_audio") = 0
        /\ Invocations("_detect_language_detailed") = 0
        /\ Invocations("_detect_accent") = 0
        /\ Returned =>
            /\ Get(result).status = "error"
            /\ Get(result).message =
                   <<"Video download failed. Check URL or free up disk space.">>
            /\ Get(result).language = None
            /\ Get(result).accent = None

C3_Witness == Returned /\ DownloadReturnedFalse

\* 10 KB, in bytes
TenKB == 10 * 1024

\* extract_audio left a file of fewer than 10 KB in this call
ExtractedUnderTenKB ==
    \E i \in 1..Len(trace) :
        /\ trace[i].fn = "extract_audio"
        /\ trace[i].file # None
        /\ Get(trace[i].file) < TenKB

\* C4: when the extracted audio file is smaller than 10 KB, neither detection
\* is invoked and the result returned has status "error".
C4_SmallAudio ==
    ExtractedUnderTenKB =>
        /\ Invocations("_detect_language_detailed") = 0
        /\ Invocations("_detect_accent") = 0
        /\ Returned => Get(result).status = "error"

\* a file extract_audio accepted (1000 bytes or more) that validation rejected
C4_Witness ==
    /\ Returned
    /\ \E i \in 1..Len(trace) :
        /\ trace[i].fn = "extract_audio"
        /\ trace[i].ok
        /\ Get(trace[i].file) < TenKB
    /\ Get(result).message = <<"Audio file too small - may be silent or corrupted">>

\* the language detection of this call was uncertain: "unknown", or a
\* confidence strictly below 0.1
LowConfidence == Lang = "unknown" \/ LangProb < 100

\* the classification made for an uncertain detection scored above 0.3
Rescued ==
    /\ LowConfidence
    /\ Len(accent_log) >= 1
    /\ accent_log[1].ret # None
    /\ Get(accent_log[1].ret).score > 300

\* C5: an uncertain detection ("unknown", or a confidence strictly below 0.1)
\* runs the accent classifier; a score strictly above 0.3 returns success with
\* language "en", language_confidence 0.5 and the classifier's name and score;
\* a score of 0.3 or less, and a confidence of 0.1 or more, leave the detected
\* language and confidence in the result.
C5_Rescue ==
    (Returned /\ detected # None) =>
        /\ LowConfidence => Len(accent_log) >= 1 /\ accent_log[1].ret # None
        /\ Rescued =>
            /\ Len(accent_log) = 1
            /\ Get(result).status = "success"
            /\ Get(result).language = Some("en")
            /\ Get(result).language_confidence = 500
            /\ Get(result).accent = Some(Get(accent_log[1].ret).name)
            /\ Get(result).accent_confidence = Get(accent_log[1].ret).score
        /\ ~Rescued =>
            /\ Get(result).language = Some(Lang)
            /\ Get(result).language_confidence = LangProb
        /\ ~LowConfidence =>
            Len(accent_log) = IF Lang = "en" THEN 1 ELSE 0

\* French at 0.099 rescued by a score of 0.301
C5_Witness ==
    /\ Returned
    /\ detected # None
    /\ Lang = "fr"
    /\ LangProb = 99
    /\ Rescued
    /\ Get(accent_log[1].ret).score = 301
    /\ Get(result).language = Some("en")

\* C6: a detected language other than "en" that is not rescued returns success
\* with the detected code and confidence, accent null and accent_confidence 0;
\* a code other than "unknown" with a confidence of 0.1 or more never invokes
\* the accent classifier.
C6_NonEnglish ==
    (detected # None /\ Lang # "en") =>
        /\ (Returned /\ ~Rescued) =>
            /\ Get(result).status = "success"
            /\ Get(result).language = Some(Lang)
            /\ Get(result).language_confidence = LangProb
            /\ Get(result).accent = None
            /\ Get(result).accent_confidence = 0
        /\ ~LowConfidence => Invocations("_detect_accent") = 0

\* French at 0.9
C6_Witness ==
    /\ Returned
    /\ detected # None
    /\ Lang = "fr"
    /\ LangProb = 900
    /\ Get(result).status = "success"
    /\ Get(result).accent = None

\* the display name of an accent code: the table's for "us", the title-cased
\* code for the codes that are not in the table
C7_DisplayName(k) ==
    CASE k = <<"u","s">> -> <<"A","m","e","r","i","c","a","n">>
      [] k = <<"u","k","-","n","I">> -> <<"U","k","-","N","i">>
      [] k = <<"u","n","k","n","o","w","n">> -> <<"U","n","k","n","o","w","n">>

\* C7: English at a confidence of 0.1 or more, classified as code k with score
\* s, returns success with language "en", the detected confidence, the display
\* name of k, accent_confidence s and accent_confidence_percentage s * 100
\* (so that "us" at 0.7 gives "American" and 70.0).
C7_English ==
    (/\ Returned
     /\ detected # None
     /\ Lang = "en"
     /\ LangProb >= 100
     /\ Len(accent_log) = 1
     /\ LastAccent.error = None
     /\ LastAccent.ret # None) =>
        LET k == Get(LastAccent.ret).code
            s == Get(LastAccent.ret).score
        IN  /\ Get(result).status = "success"
            /\ Get(result).language = Some("en")
            /\ Get(result).language_confidence = LangProb
            /\ Get(result).accent = Some(C7_DisplayName(k))
            /\ Get(result).accent_confidence = s
            /\ Get(result).accent_confidence_percentage = s

\* a code that is not in the table, title-cased
C7_Witness ==
    /\ Returned
    /\ detected # None
    /\ Lang = "en"
    /\ LangProb = 900
    /\ Len(accent_log) = 1
    /\ LastAccent.error = None
    /\ Get(LastAccent.ret).code = <<"u","k","-","n","I">>
    /\ Get(LastAccent.ret).score = 700
    /\ Get(result).accent_confidence_percentage = 700

\* English was detected and every attempt of the last classification raised
EnglishExhausted ==
    /\ Returned
    /\ detected # None
    /\ Lang = "en"
    /\ Len(accent_log) >= 1
    /\ LastAccent.error # None

C9_Percentage ==
    result # None =>
        LET pct   == Get(result).accent_confidence_percentage
            score == Get(result).accent_confidence
            diff  == pct * 1000 - score * 1000
        IN  /\ diff <= 500 /\ -diff <= 500
            /\ Get(result).accent = None => (score = 0 /\ pct = 0)

\* a rescued result at 0.301, 30.1 percent
C9_Witness ==
    /\ Returned
    /\ Get(result).accent # None
    /\ Get(result).language_confidence = 500
    /\ Get(result).accent_confidence = 301
    /\ Get(result).accent_confidence_percentage = 301

\* C10: _detect_language_detailed never raises: when any of its steps fails it
\* returns ("unknown", 0.0, {}), and no exception of it reaches process.
C10_LanguageNeverRaises ==
    /\ Invocations("_detect_language_detailed") >= 1 => detected # None
    /\ lang_log.error # None =>
        /\ detected = Some(<<"unknown", 0, <<>>>>)
        /\ Get(result).language \in {Some("unknown"), Some("en")}
        /\ Get(result).message # <<"Processing failed: ", Get(lang_log.error)>>

\* the model call itself failed
C10_Witness ==
    /\ Returned
    /\ lang_log.error = Some("RuntimeError: detect_language")
    /\ lang_log.inference = 1
    /\ detected = Some(<<"unknown", 0, <<>>>>)

\* extract_audio returned true in this call and left a file of 10 KB or more
ExtractedTenKBOrMore ==
    \E i \in 1..Len(trace) :
        /\ trace[i].fn = "extract_audio"
        /\ trace[i].ok
        /\ Get(trace[i].file) >= TenKB

\* C11: an extracted audio file that exists and holds at least 10 KB (10240
\* bytes) passes validation and goes on to language detection; only files
\* under 10 KB get the "too small" error.
C11_TenKBPasses ==
    (Returned /\ ExtractedTenKBOrMore /\ exc = None) =>
        /\ Invocations("_detect_language_detailed") = 1
        /\ Get(result).message # <<"Audio file too small - may be silent or corrupted">>

\* extract_audio returned false in this call
ExtractReturnedFalse ==
    \E i \in 1..Len(trace) : trace[i].fn = "extract_audio" /\ ~trace[i].ok

\* C12: when extract_audio returns false (no audio track, an output under 1000
\* bytes, an exception inside it), neither detection is invoked and the result
\* returned has status "error" and a message that names the audio extraction.
C12_ExtractionFailure ==
    ExtractReturnedFalse =>
        /\ Invocations("_detect_language_detailed") = 0
        /\ Invocations("_detect_accent") = 0
        /\ Returned =>
            /\ Get(result).status = "error"
            /\ Get(result).message =
                   <<"Audio extraction failed. Video may be corrupted.">>

\* an output of 999 bytes
C12_Witness ==
    /\ Returned
    /\ \E i \in 1..Len(trace) :
        /\ trace[i].fn = "extract_audio"
        /\ ~trace[i].ok
        /\ trace[i].file = Some(999)


\* _load_accent_classifier has returned to __init__
LoaderReturned == loader.pc \in {"mapping", "constructed"}

\* the tier the loader is in, 0 before the first and 5 after the last
TierAt ==
    CASE loader.pc = "whisper" -> 0
      [] loader.pc = "tier1" -> 1
      [] loader.pc \in {"tier2_download", "tier2_remove", "tier2_copy", "tier2_cleanup"} -> 2
      [] loader.pc \in {"tier3_fetch", "tier3_remove", "tier3_copy", "tier3_load"} -> 3
      [] loader.pc = "tier4" -> 4
      [] OTHER -> 5

\* C13: the tiers run in the order 1, 2, 3, 4; tier 1 runs only when the
\* directory exists and is not empty; a tier runs only after every earlier
\* tier was skipped or raised; the first tier that completes ends the chain,
\* and when the loader returns the handle is the one that tier produced.
C13_TierOrder ==
    LET log == loader.log
        n == Len(log)
    IN  /\ \A i \in 1..n : log[i].tier \in 1..4 /\ log[i].tier < TierAt
        /\ \A i \in 1..(n - 1) : log[i + 1].tier = log[i].tier + 1 /\ log[i].error # None
        /\ n > 0 => log[1].tier = (IF loader.found \in {"absent", "empty"} THEN 2 ELSE 1)
        /\ TierAt \in 1..4 => \A i \in 1..n : log[i].error # None
        /\ TierAt \in 2..4 =>
            IF n > 0 THEN log[n].tier = TierAt - 1
            ELSE TierAt = 2 /\ loader.found \in {"absent", "empty"}
        /\ LoaderReturned =>
            /\ n > 0
            /\ log[n].error = None
            /\ self.accent_classifier = Some(log[n].tier)

\* tier 1 and tier 2 raised, tier 3 completed
C13_Witness ==
    /\ loader.pc = "constructed"
    /\ Len(loader.log) = 3
    /\ self.accent_classifier = Some(3)

\* C14: when tier 4 raises after every earlier tier was skipped or raised, the
\* loader raises an error whose message holds tier 4's error, construction
\* fails and no process() call is made; the loader never returns without a
\* handle.
C14_AllTiersFail ==
    LET log == loader.log
        n == Len(log)
    IN  /\ (n > 0 /\ log[n].tier = 4 /\ log[n].error # None) =>
            /\ loader.pc = "failed"
            /\ loader.raised # None
            /\ \E i \in 1..Len(Get(loader.raised)) :
                   Get(loader.raised)[i] = Get(log[n].error)
        /\ loader.pc = "failed" => ncalls = 0 /\ pc = "idle"
        /\ ncalls > 0 => loader.pc = "constructed"
        /\ LoaderReturned => self.accent_classifier # None

\* all four tiers ran and raised
C14_Witness ==
    /\ loader.pc = "failed"
    /\ Len(loader.log) = 4
    /\ loader.log[4].error = Some("ConnectionError")

\* tier 2 is at or past its rmtree, or has just ended
InTier2Replace ==
    \/ loader.pc \in {"tier2_remove", "tier2_copy", "tier2_cleanup"}
    \/ loader.pc = "tier3_fetch" /\ loader.log[Len(loader.log)].tier = 2
    \/ LoaderReturned /\ loader.log[Len(loader.log)].tier = 2

C16_ExclusivePaths ==
    \A t \in Threads : flow[t].foreign = {}

\* C17: at most one thread at a time is inside an inference call (whisper's
\* detect_language or classify_file).
C17_OneInference ==
    Cardinality({t \in Threads : InInference(t)}) <= 1


\* C18: with fixed outcomes of the collaborators and the models, the second
\* of two process() calls, one after the other with the same URL, returns the
\* result record the first returned; what the first call left behind (files,
\* the object's handles) does not change it.
C18_Determinism ==
    /\ Len(observed) = 2 => observed[1] = observed[2]
    /\ (ncalls = 2 /\ pc = "returned") => Len(observed) = 2
    /\ self = Built

\* the second call returned, the first having left ./temp_audio_whisper.wav
C18_Witness ==
    /\ Len(observed) = 2
    /\ fs.temp_audio
    /\ Get(observed[2]).status = "success"
    /\ Get(observed[2]).accent # None


\* C19: no step of a process() call, on any of its paths, assigns
\* whisper_model, accent_classifier or accent_mapping, and none runs the
\* loader: the object stays as __init__ built it.
C19_HandlesUnchanged ==
    [][self' = self /\ loader' = loader]_vars

\* a second call has returned an accent, the object still as constructed
C19_Witness ==
    /\ ncalls = 2
    /\ Returned
    /\ Invocations("_detect_language_detailed") = 1
    /\ Invocations("_detect_accent") = 2
    /\ self = Built


\* C20: _detect_accent calls the model at most three times, with the path as
\* given, its absolute path and the absolute path with forward slashes, in
\* this order; it makes no call with the path as given when that path does not
\* exist; a path is tried only after every earlier attempt was skipped or
\* raised, and the first call that does not raise ends the loop with its
\* result.
C20_AttemptOrder ==
    fn_out # None =>
        LET a == Get(fn_in)
            r == Get(fn_out)
            first == IF a.exists0 THEN 1 ELSE 2
            succeeded == {k \in first..3 : ~a.raises[k]}
            last == IF succeeded = {} THEN 3
                    ELSE CHOOSE k \in succeeded : \A j \in succeeded : k <= j
        IN  /\ Len(r.tried) <= 3
            /\ r.tried = SubSeq(<<"audio_path", "abspath(audio_path)",
                                  "abspath(audio_path).replace">>, first, last)
            /\ succeeded # {} =>
                /\ r.raised = None
                /\ r.error = None
                /\ r.ret # None
                /\ Get(r.ret).code = (IF a.out.labels = <<>> THEN UnknownCode
                                      ELSE a.out.labels[1])

\* the path as given does not exist, the absolute path raises, the third call
\* gives the result
C20_Witness ==
    /\ fn_out # None
    /\ ~Get(fn_in).exists0
    /\ Get(fn_in).raises[2]
    /\ ~Get(fn_in).raises[3]
    /\ Len(Get(fn_out).tried) = 2
    /\ Get(fn_out).ret # None


\* C21: the three ways of decoding are tried in the order librosa, copy and
\* load, load of the absolute path; the second only when librosa raised or
\* gave no samples, the third only when the first two failed; the first that
\* succeeds gives the buffer; when all three fail the sentinel is returned and
\* the model is not invoked.
C21_DecodeOrder ==
    (fn_out # None /\ Get(fn_in).d.size_ok) =>
        LET d == Get(fn_in).d
            r == Get(fn_out)
            a_ok == d.librosa # None /\ d.librosa # Some(0)
            b_ok == d.copy_ok /\ d.copy_load # None
            c_ok == d.abs_load # None
        IN  /\ r.tried = (IF a_ok THEN <<"librosa">>
                          ELSE IF b_ok THEN <<"librosa", "copy">>
                          ELSE <<"librosa", "copy", "abspath">>)
            /\ r.samples = (IF a_ok THEN d.librosa
                            ELSE IF b_ok THEN d.copy_load
                            ELSE d.abs_load)
            /\ (~a_ok /\ ~b_ok /\ ~c_ok) =>
                /\ r.ret = <<"unknown", 0, <<>>>>
                /\ r.raised = None
                /\ r.inference = 0

\* librosa gave no samples, the load of the copy raised, the absolute path gave
\* the buffer
C21_Witness ==
    /\ fn_out # None
    /\ Get(fn_in).d.size_ok
    /\ Get(fn_in).d.librosa = Some(0)
    /\ Get(fn_in).d.copy_ok
    /\ Get(fn_in).d.copy_load = None
    /\ Get(fn_out).samples = Some(16000)
    /\ Get(fn_out).inference = 1


\* C22: the copy the second way of decoding makes is removed in every case:
\* once _detect_language_detailed has returned, whether the load of the copy
\* succeeded or raised, ./temp_audio_whisper.wav does not exist.
C22_CopyRemoved ==
    (/\ fn_out # None
     /\ Get(fn_in).d.size_ok
     /\ Get(fn_in).d.librosa \in {None, Some(0)}
     /\ Get(fn_in).d.copy_ok) =>
        ~Get(fn_out).temp

\* C23: a buffer of fewer than 16000 samples, whichever way of decoding gave
\* it, makes _detect_language_detailed return the sentinel without invoking
\* the model; a buffer of 16000 samples goes on to the model.
C23_OneSecond ==
    (fn_out # None /\ Get(fn_out).samples # None) =>
        LET d == Get(fn_in).d
            r == Get(fn_out)
        IN  /\ Get(r.samples) < 16000 =>
                /\ r.ret = <<"unknown", 0, <<>>>>
                /\ r.raised = None
                /\ r.inference = 0
            /\ Get(r.samples) = 16000 =>
                /\ r.error # Some("Audio is too short for language detection")
                /\ d.features_ok => r.inference = 1
                /\ (d.features_ok /\ d.probs # None) => r.ret[1] # "unknown"

\* 15999 samples from the load of the copy: the sentinel, no inference
C23_Witness ==
    /\ fn_out # None
    /\ Get(fn_out).tried = <<"librosa", "copy">>
    /\ Get(fn_out).samples = Some(15999)
    /\ Get(fn_out).ret = <<"unknown", 0, <<>>>>

\* the probability the distribution dist gives to key k
C24_Prob(dist, k) == dist[CHOOSE i \in 1..Len(dist) : dist[i][1] = k][2]

\* C24: when the model gives a distribution, the code returned has the
\* greatest probability of the distribution, the confidence is that
\* probability, the distribution returned holds the same items ordered by
\* non-increasing probability, and the code is its first key, ties included.
C24_ArgMax ==
    (/\ fn_out # None
     /\ Get(fn_out).inference = 1
     /\ Get(fn_in).d.probs # None) =>
        LET probs == Get(Get(fn_in).d.probs)
            ret == Get(fn_out).ret
            lang == ret[1]
            sorted_probs == ret[3]
        IN  /\ \E i \in 1..Len(probs) : probs[i][1] = lang
            /\ \A i \in 1..Len(probs) : probs[i][2] <= C24_Prob(probs, lang)
            /\ ret[2] = C24_Prob(probs, lang)
            /\ Len(sorted_probs) = Len(probs)
            /\ {sorted_probs[i] : i \in 1..Len(sorted_probs)} = {probs[i] : i \in 1..Len(probs)}
            /\ \A i \in 1..(Len(sorted_probs) - 1) : sorted_probs[i][2] >= sorted_probs[i + 1][2]
            /\ sorted_probs[1][1] = lang

\* two languages tie for the greatest probability
C24_Witness ==
    /\ fn_out # None
    /\ Get(fn_out).inference = 1
    /\ Get(fn_in).d.probs = Some(Probs(50, 100, 100))
    /\ Get(fn_out).ret[1] = "fr"


\* the first classification of this call scored at most 0.3
FirstScoreLow ==
    /\ Len(accent_log) >= 1
    /\ accent_log[1].ret # None
    /\ Get(accent_log[1].ret).score <= 300

\* C25: one call of process invokes _detect_accent at most twice, and twice
\* exactly when the language detected is "en" with a confidence below 0.1 and
\* the first classification scored at most 0.3; the result is then a success
\* with language "en", the confidence detected, and the accent of the second
\* invocation.
C25_TwoClassifications ==
    /\ Len(accent_log) <= 2
    /\ Invocations("_detect_accent") = Len(accent_log)
    /\ pc \in {"exit", "returned"} =>
        (Len(accent_log) = 2 <=>
            /\ detected # None
            /\ Lang = "en"
            /\ LangProb < 100
            /\ FirstScoreLow)
    /\ (Returned /\ Len(accent_log) = 2) =>
        /\ Get(result).status = "success"
        /\ Get(result).language = Some("en")
        /\ Get(result).language_confidence = LangProb
        /\ Get(result).accent = Some(Get(accent_log[2].ret).name)
        /\ Get(result).accent_confidence = Get(accent_log[2].ret).score
        /\ Get(result).accent_confidence_percentage = Get(accent_log[2].ret).percent

\* "en" at 0.099, a first score of 0.3, a second of 0.7
C25_Witness ==
    /\ Returned
    /\ Len(accent_log) = 2
    /\ LangProb = 99
    /\ Get(accent_log[1].ret).score = 300
    /\ Get(result).accent_confidence = 700

\* C26: when the language detection gives the sentinel and the classification
\* that follows scores at most 0.3 (0.0 when the classifier failed), the result
\* returned is a success with language "unknown", confidence 0.0, no accent,
\* and the message of non-English audio.
C26_UnknownNotRescued ==
    (Returned /\ detected = Some(<<"unknown", 0, <<>>>>) /\ FirstScoreLow) =>
        /\ Len(accent_log) = 1
        /\ Get(result).status = "success"
        /\ Get(result).language = Some("unknown")
        /\ Get(result).language_confidence = 0
        /\ Get(result).accent = None
        /\ Get(result).message = <<"Non-English audio detected: ", "unknown">>

\* the sentinel, and a classifier whose three calls raised
C26_Witness ==
    /\ Returned
    /\ detected = Some(<<"unknown", 0, <<>>>>)
    /\ Len(accent_log) = 1
    /\ accent_log[1].error # None
    /\ Get(accent_log[1].ret).score = 0
    /\ Get(result).status = "success"

\* C27: a result returned has an accent exactly when its status is "success"
\* and its language "en"; every other result has accent null and the two
\* accent confidences 0.0.
C27_AccentIffEnglish ==
    Returned =>
        /\ Get(result).accent # None <=>
               (Get(result).status = "success" /\ Get(result).language = Some("en"))
        /\ Get(result).accent = None =>
            /\ Get(result).accent_confidence = 0
            /\ Get(result).accent_confidence_percentage = 0

\* the sentinel rescued by the classification: language "en" and an accent
C27_Witness ==
    /\ Returned
    /\ detected = Some(<<"unknown", 0, <<>>>>)
    /\ Get(result).language = Some("en")
    /\ Get(result).accent # None

\* C29: a result returned has status "success" or "error", a message that is
\* not empty and the URL of the call; its status is "success" only when the
\* language detection was invoked and returned.
C29_WellFormed ==
    Returned =>
        /\ Get(result).status \in {"success", "error"}
        /\ Get(result).message # <<>>
        /\ \A i \in 1..Len(Get(result).message) : Get(result).message[i] # ""
        /\ Get(result).video_url = Get(video_url)
        /\ Get(result).status = "success" =>
            /\ Invocations("_detect_language_detailed") = 1
            /\ detected # None

\* a call that ended in the handler of 245
C29_Witness ==
    /\ Returned
    /\ exc # None
    /\ Get(result).status = "error"
    /\ Get(result).message[1] = "Processing failed: "


\* C28: the download of tier 2 and the fetch of tier 3 leave the permanent
\* directory as it is, whether they succeed or raise; the directory changes
\* only in the steps that follow a download or a fetch that succeeded (and in
\* tier 4, which saves into it).
C28_RemoveAfterDownload ==
    [][/\ loader.pc \in {"whisper", "tier1", "tier2_download", "tier3_fetch"} =>
           model_dir' = model_dir
       /\ model_dir' # model_dir =>
           loader.pc \in {"tier2_remove", "tier2_copy", "tier3_remove", "tier3_copy",
                          "tier4"}]_vars

\* the download of tier 2 raised (no handle assigned), the fetch of tier 3
\* raised, and the directory an earlier run left is still there
C28_Witness ==
    /\ loader.pc = "tier4"
    /\ Len(loader.log) = 3
    /\ self.accent_classifier = None
    /\ loader.found = "previous"
    /\ model_dir = "previous"


\* a call of process has ended, by a return or by an exception
Ended_Call(n) == ncalls = n /\ pc \in {"returned", "raised"}

\* every call of process ends, and the attempts it makes are bounded: at most
\* three ways of decoding, at most three classify_file calls per classification
C30_Terminates ==
    /\ \A n \in 1..MaxCalls : (ncalls = n) ~> Ended_Call(n)
    /\ [](/\ Len(lang_log.tried) <= 3
          /\ \A i \in 1..Len(accent_log) : Len(accent_log[i].tried) <= 3)

\* C30: every call of process returns in the end: no step is retried without
\* bound, the decoding makes at most three attempts and each classification at
\* most three.
C30_EventuallyReturns ==
    /\ \A n \in 1..MaxCalls : (ncalls = n) ~> (ncalls = n /\ pc = "returned")
    /\ [](/\ Len(lang_log.tried) <= 3
          /\ \A i \in 1..Len(accent_log) : Len(accent_log[i].tried) <= 3)

===========================================================================
